---------------------------- MODULE Spec2Model ----------------------------
(***************************************************************************)
(* A model of scripts/validate_and_compute_stability.py: the validation   *)
(* pass of validate_csv over a habit-tracking CSV file, the stability     *)
(* check/fill, and the optional write-back.                               *)
(*                                                                         *)
(* Strings are sequences of one-character strings, so that str.strip(),   *)
(* float() and the "%.1f" format are computed and not assumed.  Python    *)
(* floats are IEEE-754 binary64 values, held exactly as a sign and a      *)
(* magnitude counted in units of 2^-GridBits; the magnitude is a natural  *)
(* number written in limbs of 15 bits, least significant limb first.      *)
(***************************************************************************)
EXTENDS Integers, Sequences, FiniteSets, TLC

(***************************************************************************)
(* Natural numbers of any size (limbs base 2^15, little-endian, no        *)
(* leading zero limb; zero is the empty sequence).                        *)
(***************************************************************************)
LimbBits == 15
Base == 2 ^ LimbBits

RECURSIVE BigNorm(_)
BigNorm(a) ==
    IF a = <<>> THEN <<>>
    ELSE IF a[Len(a)] = 0 THEN BigNorm(SubSeq(a, 1, Len(a) - 1))
    ELSE a

RECURSIVE BigFromNat(_)
BigFromNat(n) ==
    IF n = 0 THEN <<>> ELSE <<n % Base>> \o BigFromNat(n \div Base)

RECURSIVE BigToNat(_)
BigToNat(a) ==
    IF a = <<>> THEN 0 ELSE Head(a) + Base * BigToNat(Tail(a))

Limb0(a) == IF a = <<>> THEN 0 ELSE Head(a)
Rest(a) == IF a = <<>> THEN <<>> ELSE Tail(a)

RECURSIVE BigAddC(_, _, _)
BigAddC(a, b, c) ==
    IF a = <<>> /\ b = <<>>
    THEN (IF c = 0 THEN <<>> ELSE <<c>>)
    ELSE LET x == Limb0(a) + Limb0(b) + c
         IN  <<x % Base>> \o BigAddC(Rest(a), Rest(b), x \div Base)

BigAdd(a, b) == BigAddC(a, b, 0)

\* a - b for a >= b
RECURSIVE BigSubB(_, _, _)
BigSubB(a, b, br) ==
    IF a = <<>> THEN <<>>
    ELSE LET x == Base + Head(a) - Limb0(b) - br
         IN  <<x % Base>> \o BigSubB(Tail(a), Rest(b), IF x < Base THEN 1 ELSE 0)

BigSub(a, b) == BigNorm(BigSubB(a, b, 0))

\* -1, 0 or 1 as a < b, a = b, a > b
RECURSIVE BigCmpTop(_, _, _)
BigCmpTop(a, b, i) ==
    IF i = 0 THEN 0
    ELSE IF a[i] < b[i] THEN -1
    ELSE IF a[i] > b[i] THEN 1
    ELSE BigCmpTop(a, b, i - 1)

BigCmp(a, b) ==
    IF Len(a) < Len(b) THEN -1
    ELSE IF Len(a) > Len(b) THEN 1
    ELSE BigCmpTop(a, b, Len(a))

\* a * c for 0 <= c <= Base
RECURSIVE BigMulC(_, _, _)
BigMulC(a, c, carry) ==
    IF a = <<>> THEN BigFromNat(carry)
    ELSE LET x == Head(a) * c + carry
         IN  <<x % Base>> \o BigMulC(Tail(a), c, x \div Base)

BigMulSmall(a, c) == BigNorm(BigMulC(a, c, 0))

\* quotient and remainder of a by d, for 0 < d <= Base
RECURSIVE BigDivRaw(_, _)
BigDivRaw(a, d) ==
    IF a = <<>> THEN [q |-> <<>>, r |-> 0]
    ELSE LET hi == BigDivRaw(Tail(a), d)
             cur == hi.r * Base + Head(a)
         IN  [q |-> <<cur \div d>> \o hi.q, r |-> cur % d]

BigDivSmall(a, d) ==
    LET x == BigDivRaw(a, d) IN [q |-> BigNorm(x.q), r |-> x.r]

Zeros(n) == [i \in 1..n |-> 0]

\* a * 2^k and floor(a / 2^k)
BigShl(a, k) ==
    IF a = <<>> THEN <<>>
    ELSE BigMulSmall(Zeros(k \div LimbBits) \o a, 2 ^ (k % LimbBits))

BigShr(a, k) ==
    IF Len(a) <= k \div LimbBits THEN <<>>
    ELSE BigDivSmall(SubSeq(a, (k \div LimbBits) + 1, Len(a)),
                     2 ^ (k % LimbBits)).q

RECURSIVE NatBitLen(_)
NatBitLen(n) == IF n = 0 THEN 0 ELSE 1 + NatBitLen(n \div 2)

BigBitLen(a) ==
    IF a = <<>> THEN 0 ELSE LimbBits * (Len(a) - 1) + NatBitLen(a[Len(a)])

BigIsOdd(a) == a # <<>> /\ Head(a) % 2 = 1

(***************************************************************************)
(* Python values.  A str is a sequence of one-character strings; None and *)
(* list are what csv.DictReader puts in a row beside str.  A float is     *)
(* nan, an infinity, or a finite binary64 value (-1)^s * m * 2^-GridBits. *)
(***************************************************************************)
None == [t |-> "None"]
Str(chars) == [t |-> "str", v |-> chars]
List(items) == [t |-> "list", v |-> items]

GridBits == 64
MantBits == 53

NaN == [t |-> "float", k |-> "nan", s |-> 0, m |-> <<>>]
Inf(sign) == [t |-> "float", k |-> "inf", s |-> sign, m |-> <<>>]
Fin(sign, mag) == [t |-> "float", k |-> "fin", s |-> sign, m |-> mag]

\* A value that binary64 holds but the grid of 2^-GridBits does not: no such
\* value is computed from the inputs of this model, and evaluation stops if
\* one ever is.
OffGrid == CHOOSE x \in {} : TRUE

\* n (plus a nonzero fraction when sticky) with its k low bits rounded away,
\* to nearest and ties to even, q being floor(n / 2^k): q goes up when the
\* bits dropped are above the half, or are the half and q is odd.
RoundAt(n, sticky, k, q) ==
    BigShl(IF BigCmp(BigSub(n, BigShl(q, k)), BigShl(<<1>>, k - 1))
                 >= (IF sticky \/ BigIsOdd(q) THEN 0 ELSE 1)
           THEN BigAdd(q, <<1>>)
           ELSE q,
           k)

RoundDrop(n, sticky, k) == RoundAt(n, sticky, k, BigShr(n, k))

\* Round-to-nearest, ties-to-even, of n (plus a nonzero fraction when sticky)
\* to MantBits significant bits.
RoundSig(n, sticky) ==
    IF BigBitLen(n) <= MantBits THEN (IF sticky THEN OffGrid ELSE n)
    ELSE RoundDrop(n, sticky, BigBitLen(n) - MantBits)

RECURSIVE DivPow10(_, _, _)
DivPow10(n, k, sticky) ==
    IF k = 0 THEN [q |-> n, sticky |-> sticky]
    ELSE LET d == BigDivSmall(n, 10)
         IN  DivPow10(d.q, k - 1, sticky \/ d.r # 0)

\* The binary64 value nearest to (-1)^sign * digits / 10^k (strtod).
FromDecimal(sign, digits, k) ==
    LET d == DivPow10(BigShl(BigFromNat(digits), GridBits), k, FALSE)
    IN  Fin(sign, RoundSig(d.q, d.sticky))

FromInt(n) == FromDecimal(0, n, 0)

FIsZero(x) == x.k = "fin" /\ x.m = <<>>

FNeg(x) == IF x.k = "nan" THEN x ELSE [x EXCEPT !.s = 1 - x.s]

FAbs(x) == IF x.k = "nan" THEN x ELSE [x EXCEPT !.s = 0]

\* x + y
FAdd(x, y) ==
    IF x.k = "nan" \/ y.k = "nan" THEN NaN
    ELSE IF x.k = "inf" THEN (IF y.k = "inf" /\ y.s # x.s THEN NaN ELSE x)
    ELSE IF y.k = "inf" THEN y
    ELSE IF x.s = y.s THEN Fin(x.s, RoundSig(BigAdd(x.m, y.m), FALSE))
    ELSE IF x.m = y.m THEN Fin(0, <<>>)
    ELSE IF BigCmp(x.m, y.m) = 1
    THEN Fin(x.s, RoundSig(BigSub(x.m, y.m), FALSE))
    ELSE Fin(y.s, RoundSig(BigSub(y.m, x.m), FALSE))

\* x - y
FSub(x, y) == FAdd(x, FNeg(y))

\* x / float(d) for a natural d, 0 < d <= Base
FDivNat(x, d) ==
    IF x.k # "fin" THEN x
    ELSE LET dv == BigDivSmall(x.m, d)
         IN  Fin(x.s, RoundSig(dv.q, dv.r # 0))

MagCmp(x, y) ==
    IF x.k = "inf" /\ y.k = "inf" THEN 0
    ELSE IF x.k = "inf" THEN 1
    ELSE IF y.k = "inf" THEN -1
    ELSE BigCmp(x.m, y.m)

\* x < y and x > y: false when either is nan
FLt(x, y) ==
    /\ x.k # "nan"
    /\ y.k # "nan"
    /\ ~(FIsZero(x) /\ FIsZero(y))
    /\ IF x.s # y.s THEN x.s = 1
       ELSE IF x.s = 0 THEN MagCmp(x, y) = -1
       ELSE MagCmp(x, y) = 1

FGt(x, y) == FLt(y, x)

\* float.is_integer(): false for nan and the infinities
FIsInteger(x) ==
    x.k = "fin" /\ BigShl(BigShr(x.m, GridBits), GridBits) = x.m

\* The magnitude m in tenths, correctly rounded (ties to even on the exact
\* binary value), as dtoa does for round(x, 1) and for "%.1f".
Tenths(m) ==
    BigToNat(BigShr(RoundDrop(BigMulSmall(m, 10), FALSE, GridBits), GridBits))

\* round(x, 1)
FRound1(x) ==
    IF x.k # "fin" THEN x ELSE FromDecimal(x.s, Tenths(x.m), 1)

Digit == <<"0", "1", "2", "3", "4", "5", "6", "7", "8", "9">>

RECURSIVE NatStr(_)
NatStr(n) ==
    IF n < 10 THEN <<Digit[n + 1]>>
    ELSE NatStr(n \div 10) \o <<Digit[(n % 10) + 1]>>

\* f"{x:.1f}"
FFormat1(x) ==
    IF x.k = "nan" THEN <<"n", "a", "n">>
    ELSE IF x.k = "inf"
    THEN (IF x.s = 1 THEN <<"-">> ELSE <<>>) \o <<"i", "n", "f">>
    ELSE LET t == Tenths(x.m)
         IN  (IF x.s = 1 THEN <<"-">> ELSE <<>>)
             \o NatStr(t \div 10) \o <<".">> \o <<Digit[(t % 10) + 1]>>

(***************************************************************************)
(* Strings: str.strip() and float(str).  The strings of this model are    *)
(* written in digits, " ", ".", "-", "+" and lower-case letters other     *)
(* than "e"; over that alphabet float() accepts exactly an optional sign  *)
(* followed by "nan", "inf", or digits with at most one ".".              *)
(***************************************************************************)
IsSpace(c) == c \in {" ", "\t", "\n", "\r"}

RECURSIVE lstrip(_)
lstrip(chars) ==
    IF chars # <<>> /\ IsSpace(Head(chars)) THEN lstrip(Tail(chars)) ELSE chars

RECURSIVE rstrip(_)
rstrip(chars) ==
    IF chars # <<>> /\ IsSpace(chars[Len(chars)])
    THEN rstrip(SubSeq(chars, 1, Len(chars) - 1))
    ELSE chars

strip(chars) == rstrip(lstrip(chars))

IsDigit(c) == \E i \in 1..10 : Digit[i] = c

DigitVal(c) == (CHOOSE i \in 1..10 : Digit[i] = c) - 1

RECURSIVE DigitsVal(_)
DigitsVal(chars) ==
    IF chars = <<>> THEN 0
    ELSE DigitsVal(SubSeq(chars, 1, Len(chars) - 1)) * 10
         + DigitVal(chars[Len(chars)])

ValueError == [t |-> "ValueError"]

\* body without its "."s, and the number of characters after its "."
NoDots(body) == SelectSeq(body, LAMBDA c : c # ".")

AfterDot(body) ==
    IF \E i \in 1..Len(body) : body[i] = "."
    THEN Len(body) - (CHOOSE i \in 1..Len(body) : body[i] = ".")
    ELSE 0

\* What float() reads in chars: "nan", "inf" (an infinity), "dec" (the
\* decimal (-1)^sign * digits / 10^k), or "err" (not a number).
NumberKind(body) ==
    IF body = <<"n", "a", "n">> THEN "nan"
    ELSE IF body = <<"i", "n", "f">> THEN "inf"
    ELSE IF /\ Len(body) - Len(NoDots(body)) <= 1
            /\ NoDots(body) # <<>>
            /\ \A i \in 1..Len(NoDots(body)) : IsDigit(NoDots(body)[i])
    THEN "dec"
    ELSE "err"

ParseSigned(sign, body) ==
    [kind |-> NumberKind(body), sign |-> sign,
     digits |-> IF NumberKind(body) = "dec" THEN DigitsVal(NoDots(body))
                ELSE 0,
     k |-> IF NumberKind(body) = "dec" THEN AfterDot(body) ELSE 0]

ParseStripped(t) ==
    IF t # <<>> /\ Head(t) \in {"-", "+"}
    THEN ParseSigned(IF Head(t) = "-" THEN 1 ELSE 0, Tail(t))
    ELSE ParseSigned(0, t)

ParseNumber(chars) == ParseStripped(strip(chars))

\* The float a number read by ParseNumber stands for
FloatOf(p) ==
    IF p.kind = "nan" THEN NaN
    ELSE IF p.kind = "inf" THEN Inf(p.sign)
    ELSE FromDecimal(p.sign, p.digits, p.k)

\* float(chars): a float, or ValueError
float(chars) ==
    IF ParseNumber(chars).kind = "err" THEN ValueError
    ELSE FloatOf(ParseNumber(chars))

(***************************************************************************)
(* The schema.                                                            *)
(***************************************************************************)
REQUIRED_COLUMNS ==
    <<"date", "clarity", "calm", "routine", "stability", "sleep_hours",
      "sleep_quality", "exercise_minutes", "caffeine_units",
      "social_minutes", "stressors", "notes">>

\* RANGES.keys(), in the dict's order
RangedColumns ==
    <<"clarity", "calm", "routine", "stability", "sleep_hours",
      "sleep_quality", "exercise_minutes", "caffeine_units",
      "social_minutes", "stressors">>

\* (lo, hi) of each ranged column; the bounds are whole numbers
RANGES ==
    [clarity |-> <<0, 10>>, calm |-> <<0, 10>>, routine |-> <<0, 10>>,
     stability |-> <<0, 10>>, sleep_hours |-> <<0, 16>>,
     sleep_quality |-> <<1, 5>>, exercise_minutes |-> <<0, 300>>,
     caffeine_units |-> <<0, 20>>, social_minutes |-> <<0, 1440>>,
     stressors |-> <<0, 3>>]

INT_FIELDS ==
    {"sleep_quality", "exercise_minutes", "caffeine_units", "social_minutes",
     "stressors"}

Issue(row_number, column, kind, args) ==
    [row_number |-> row_number, column |-> column,
     message |-> [kind |-> kind, args |-> args]]

Range(f) == {f[i] : i \in DOMAIN f}

_is_blank(value) == value.t = "None" \/ strip(value.v) = <<>>

\* Lines 69-72: try ... except ValueError
ExceptValueError(f) == IF f.t = "ValueError" THEN None ELSE f

_to_float(value) ==
    IF _is_blank(value) THEN None ELSE ExceptValueError(float(value.v))

InHeader(c, header) == \E i \in 1..Len(header) : header[i] = c

InRequired(c) == \E i \in 1..Len(REQUIRED_COLUMNS) : REQUIRED_COLUMNS[i] = c

\* _validate_columns that wants each required column at its own place: what
\* C5 tells from _validate_columns.
_validate_columns_in_order(header) ==
    LET missing == SelectSeq(REQUIRED_COLUMNS, LAMBDA c :
                       \E i \in 1..Len(REQUIRED_COLUMNS) :
                           /\ REQUIRED_COLUMNS[i] = c
                           /\ (i > Len(header) \/ header[i] # c))
        extras == SelectSeq(header, LAMBDA c : ~InRequired(c))
    IN  (IF missing # <<>> THEN <<<<"Missing columns", missing>>>> ELSE <<>>)
        \o (IF extras # <<>>
            THEN <<<<"Unexpected extra columns", extras>>>> ELSE <<>>)

\* The messages of the header check; a message is (kind, the columns listed).
_validate_columns(header) ==
    LET missing == SelectSeq(REQUIRED_COLUMNS, LAMBDA c : ~InHeader(c, header))
        extras == SelectSeq(header, LAMBDA c : ~InRequired(c))
    IN  (IF missing # <<>> THEN <<<<"Missing columns", missing>>>> ELSE <<>>)
        \o (IF extras # <<>>
            THEN <<<<"Unexpected extra columns", extras>>>> ELSE <<>>)

\* The literal 0.1 of the tolerance test and the 3.0 of the mean
Tolerance == FromDecimal(0, 1, 1)

compute_stability(clarity, calm, routine) ==
    FRound1(FDivNat(FAdd(FAdd(clarity, calm), routine), 3))

(***************************************************************************)
(* The csv module.  A file is the sequence of records csv.reader yields   *)
(* from it: the header record is a sequence of column names, a data       *)
(* record a sequence of cells, a blank line the empty record.  A dict is  *)
(* a function on its keys.                                                *)
(***************************************************************************)
\* The key None, under which DictReader puts the cells beyond the header
RestKey == "<None>"

\* csv.DictReader's row for a non-empty record: dict(zip(fieldnames, row)),
\* then the surplus cells under the key None, or None for each column the
\* record is too short for.  A column named twice takes its last cell.
DictRow(fieldnames, cells) ==
    LET lf == Len(fieldnames)
        lr == Len(cells)
        last(k) == CHOOSE i \in 1..lf :
                      /\ fieldnames[i] = k
                      /\ \A j \in (i + 1)..lf : fieldnames[j] # k
    IN  [k \in Range(fieldnames) \cup (IF lf < lr THEN {RestKey} ELSE {}) |->
            IF k = RestKey
            THEN List(SubSeq(cells, lf + 1, lr))
            ELSE IF last(k) <= lr THEN Str(cells[last(k)]) ELSE None]

\* The records DictReader yields after the header: blank lines are skipped.
DataRows(f) == SelectSeq(Tail(f), LAMBDA r : r # <<>>)

Get(d, k, default) == IF k \in DOMAIN d THEN d[k] ELSE default

Put(d, k, v) == [x \in DOMAIN d \cup {k} |-> IF x = k THEN v ELSE d[x]]

\* csv.writer's field for a value: None is written as the empty string
WriteField(value) == IF value.t = "None" THEN <<>> ELSE value.v

(***************************************************************************)
(* The body of validate_csv's loop, for the row of line idx.              *)
(***************************************************************************)
\* CleanRow without the strip: what C6 tells from CleanRow.
CleanRowUnstripped(row) == row

\* Line 109: every str value stripped
CleanRow(row) ==
    [k \in DOMAIN row |->
        IF row[k].t = "str" THEN Str(strip(row[k].v)) ELSE row[k]]

\* Lines 112-117: the issues of the date check
DateIssues(idx, date, seen) ==
    IF _is_blank(date) THEN <<Issue(idx, "date", "Missing date", <<>>)>>
    ELSE IF date.v \in seen
    THEN <<Issue(idx, "date", "Duplicate date", <<date.v>>)>>
    ELSE <<>>

\* SeenAfter without the add of line 118: what C4 tells from SeenAfter.
SeenAfterForgets(date, seen) == seen

\* Lines 113-118: seen_dates after the row
SeenAfter(date, seen) ==
    IF _is_blank(date) THEN seen ELSE seen \cup {date.v}

\* Lines 129-141 for one column: the issues of the value fval read in val
NumberIssues(idx, col, val, fval, lo, hi) ==
    IF fval.t = "None"
    THEN <<Issue(idx, col, "Not a number", <<val.v>>)>>
    ELSE (IF FLt(fval, lo) \/ FGt(fval, hi)
          THEN <<Issue(idx, col, "Out of range", <<lo, hi, fval>>)>>
          ELSE <<>>)
         \o (IF col \in INT_FIELDS /\ ~FIsInteger(fval)
             THEN <<Issue(idx, col, "Expected integer", <<fval>>)>>
             ELSE <<>>)

\* Lines 123-141 for one column: its issues
FieldIssues(idx, col, val) ==
    IF _is_blank(val) THEN <<>>
    ELSE NumberIssues(idx, col, val, _to_float(val),
                      FromInt(RANGES[col][1]), FromInt(RANGES[col][2]))

\* Lines 123-137 for one column: numeric_values[col]
NumericValue(val) == IF _is_blank(val) THEN None ELSE _to_float(val)

NumericValues(row_clean) ==
    [col \in Range(RangedColumns) |->
        NumericValue(Get(row_clean, col, Str(<<>>)))]

RECURSIVE RangeIssues(_, _, _)
RangeIssues(idx, row_clean, i) ==
    IF i > Len(RangedColumns) THEN <<>>
    ELSE FieldIssues(idx, RangedColumns[i],
                     Get(row_clean, RangedColumns[i], Str(<<>>)))
         \o RangeIssues(idx, row_clean, i + 1)

\* Line 148
CanCompute(nv) ==
    nv["clarity"].t # "None" /\ nv["calm"].t # "None"
    /\ nv["routine"].t # "None"

\* FillStability that fills only from scores within their ranges: what C2
\* tells from FillStability.
FillStabilityFromValidScores(row_clean, nv) ==
    IF /\ CanCompute(nv)
       /\ nv["stability"].t = "None"
       /\ \A c \in {"clarity", "calm", "routine"} :
             ~FLt(nv[c], FromInt(RANGES[c][1]))
             /\ ~FGt(nv[c], FromInt(RANGES[c][2]))
    THEN Put(row_clean, "stability",
             Str(FFormat1(compute_stability(nv["clarity"], nv["calm"],
                                            nv["routine"]))))
    ELSE row_clean

\* Lines 148-154: the cleaned row after the stability fill
FillStability(row_clean, nv) ==
    IF CanCompute(nv) /\ nv["stability"].t = "None"
    THEN Put(row_clean, "stability",
             Str(FFormat1(compute_stability(nv["clarity"], nv["calm"],
                                            nv["routine"]))))
    ELSE row_clean

\* Lines 157-165: the issue of a stability beside the computed one
MismatchIssues(idx, existing, computed) ==
    IF FGt(FAbs(FSub(existing, computed)), Tolerance)
    THEN <<Issue(idx, "stability", "Does not match",
                 <<FFormat1(existing), FFormat1(computed)>>)>>
    ELSE <<>>

\* Lines 148-165: the issue of the stability check
StabilityIssues(idx, nv) ==
    IF CanCompute(nv) /\ nv["stability"].t # "None"
    THEN MismatchIssues(idx, nv["stability"],
                        compute_stability(nv["clarity"], nv["calm"],
                                          nv["routine"]))
    ELSE <<>>

(***************************************************************************)
(* The files validate_csv is run on.                                      *)
(***************************************************************************)
MaxRows == 2
MaxRuns == 2

D1 == <<"1", "-", "1">>
D1Padded == <<" ", "1", "-", "1", " ">>
D2 == <<"1", "-", "0", "1">>
Spaces == <<" ", " ">>

\* The row of the specification's end-to-end scenario, with the undeclared
\* column "mood".
BaseRow ==
    [date |-> D1, clarity |-> <<"8">>, calm |-> <<"7">>, routine |-> <<"9">>,
     stability |-> <<>>, sleep_hours |-> <<"7">>, sleep_quality |-> <<"4">>,
     exercise_minutes |-> <<"3", "0">>, caffeine_units |-> <<"1">>,
     social_minutes |-> <<" ", "6", "0">>, stressors |-> <<"1">>,
     notes |-> <<>>, mood |-> <<"o", "k">>]

\* A row with only its date and its three scores
PlainRow(date) ==
    [c \in DOMAIN BaseRow |->
        IF c = "date" THEN date
        ELSE IF c \in {"clarity", "calm", "routine"} THEN BaseRow[c]
        ELSE <<>>]

Scores(clarity, calm, routine, stability) ==
    [PlainRow(D1) EXCEPT !.clarity = clarity, !.calm = calm,
                         !.routine = routine, !.stability = stability]

\* Rows that differ in the date: the first of a date, the same date padded,
\* another spelling, a blank date.
DateRows == {PlainRow(D1), PlainRow(D1Padded), PlainRow(D2), PlainRow(Spaces)}

\* Rows that differ in the scores and the stability field.
ScoreRows ==
    { BaseRow,
      Scores(<<"8">>, <<"7">>, <<"9">>, <<"5", ".", "0">>),
      Scores(<<"8">>, <<"7">>, <<"9">>, <<"8", ".", "0">>),
      Scores(<<"8">>, <<"8">>, <<"8">>, <<"8", ".", "1">>),
      Scores(<<"8">>, <<"7">>, <<"9">>,
             <<"8", ".", "1", "0", "0", "0", "1">>),
      Scores(<<"0", ".", "3">>, <<"0", ".", "3">>, <<"0", ".", "3">>,
             <<"0", ".", "4">>),
      Scores(<<"0", ".", "1">>, <<"0", ".", "2">>, <<"0", ".", "3">>,
             <<"0", ".", "3">>),
      Scores(<<"0", ".", "0", "5">>, <<"0", ".", "0", "5">>,
             <<"0", ".", "0", "5">>, <<>>),
      Scores(<<"8">>, <<"7">>, <<"9">>, <<"a", "b", "c">>),
      Scores(<<"8">>, <<"7">>, <<"9">>, <<"1", "1">>),
      Scores(<<"8">>, <<"7">>, <<"9">>, <<"n", "a", "n">>),
      Scores(<<" ", "8", " ">>, <<"7">>, <<"9">>, <<" ", "8", ".", "0">>),
      Scores(<<"n", "a", "n">>, <<"7">>, <<"9">>, <<>>),
      Scores(<<"1", "1">>, <<"7">>, <<"9">>, <<>>),
      Scores(<<"-", "1">>, <<"7">>, <<"9">>, <<>>),
      Scores(<<>>, <<"7">>, <<"9">>, <<"5", ".", "0">>),
      Scores(<<"x">>, <<"7">>, <<"9">>, <<>>) }

\* Rows that differ in an integer-only column.
CountRows ==
    { [PlainRow(D1) EXCEPT !.exercise_minutes = x] :
        x \in { <<"3", "0", ".", "5">>, <<"3", "0", "1">>,
                <<"3", "0", "0", ".", "5">>, <<"i", "n", "f">>, <<"x">>,
                <<"-", "0">> } }
    \cup { [PlainRow(D1) EXCEPT !.sleep_quality = <<"0">>] }

Reverse(s) == [i \in 1..Len(s) |-> s[Len(s) + 1 - i]]

\* Headers: the required columns in order and reversed, with an extra
\* column, with columns missing (and the date named twice), with both, and
\* the header of a file whose first line is blank.
Headers ==
    { REQUIRED_COLUMNS,
      Reverse(REQUIRED_COLUMNS),
      REQUIRED_COLUMNS \o <<"mood">>,
      <<"date", "clarity", "calm", "routine", "date">>,
      <<"mood", "routine", "calm", "clarity", "stability", "date">>,
      <<>> }

Layout(h, row) == [i \in 1..Len(h) |-> row[h[i]]]

\* Records that differ in their length: a blank line, a record cut after
\* its second cell, a record with a cell beyond the header.
OddRecords(h) ==
    { <<>>,
      SubSeq(Layout(h, PlainRow(D1)), 1, IF Len(h) < 2 THEN Len(h) ELSE 2),
      Layout(h, PlainRow(D2)) \o <<"x">> }

RECURSIVE SeqsUpTo(_, _)
SeqsUpTo(S, n) ==
    IF n = 0 THEN {<<>>}
    ELSE LET shorter == SeqsUpTo(S, n - 1)
         IN  shorter \cup {Append(q, x) : q \in shorter, x \in S}

\* The empty file; and under each header, up to MaxRows records that differ
\* in date and length, or one row of scores or counts.
Files ==
    {<<>>}
    \cup UNION { { <<h>> \o rs :
                     rs \in SeqsUpTo({Layout(h, r) : r \in DateRows}
                                     \cup OddRecords(h), MaxRows) }
                 \cup { <<h, Layout(h, r)>> : r \in ScoreRows \cup CountRows }
               : h \in Headers }

(***************************************************************************)
(* validate_csv(path, write_back), run by main: the initial states and    *)
(* the steps.                                                             *)
(***************************************************************************)
VARIABLES
    file,        \* the records of the file at path
    write_back,  \* the argument
    pc,          \* "start", "rows" (in the loop), "done" (returned), "raised"
    header,      \* reader.fieldnames
    unread,      \* the records the reader has not read yet
    idx,         \* enumerate's counter: the line number of the next row
    issues,
    rows_out,
    seen_dates,
    valid_rows,
    result,      \* the (issues, row count) returned
    file0,       \* the file as it was when this run began
    writes,      \* how many times this run has written the file
    runs         \* how many runs have begun

vars ==
    <<file, write_back, pc, header, unread, idx, issues, rows_out,
      seen_dates, valid_rows, result, file0, writes, runs>>

\* WrittenFile with the header of the input for fieldnames: what C10 tells
\* from WrittenFile.
WrittenFileUnderInputHeader(rows) ==
    <<header>>
    \o [i \in 1..Len(rows) |->
          [j \in 1..Len(header) |->
              IF InRequired(header[j])
              THEN WriteField(Get(rows[i], header[j], Str(<<>>)))
              ELSE <<>>]]

\* Lines 170-179: the file the write-back leaves
WrittenFile(rows) ==
    <<REQUIRED_COLUMNS>>
    \o [i \in 1..Len(rows) |->
          [j \in 1..Len(REQUIRED_COLUMNS) |->
              WriteField(Get(rows[i], REQUIRED_COLUMNS[j], Str(<<>>)))]]

NoResult == [t |-> "None"]

Locals ==
    /\ pc = "start"
    /\ header = <<>>
    /\ unread = <<>>
    /\ idx = 2
    /\ issues = <<>>
    /\ rows_out = <<>>
    /\ seen_dates = {}
    /\ valid_rows = 0
    /\ result = NoResult
    /\ writes = 0

Init ==
    /\ file \in Files
    /\ write_back \in BOOLEAN
    /\ file0 = file
    /\ runs = 1
    /\ Locals

\* The records left for the reader once the blank lines before the next row
\* are skipped.
RECURSIVE SkipBlank(_)
SkipBlank(records) ==
    IF records # <<>> /\ Head(records) = <<>> THEN SkipBlank(Tail(records))
    ELSE records

\* Lines 94-97: the file is empty, there is no header row.
NoHeaderRow ==
    /\ pc = "start"
    /\ file = <<>>
    /\ result' = [issues |-> <<Issue(0, "", "CSV has no header row", <<>>)>>,
                  rows |-> 0]
    /\ pc' = "done"
    /\ UNCHANGED <<file, write_back, header, unread, idx, issues, rows_out,
                   seen_dates, valid_rows, file0, writes, runs>>

\* ReadHeader that reads no row under a header with issues: what C8 tells
\* from ReadHeader.
ReadHeaderStopsOnIssues ==
    /\ pc = "start"
    /\ file # <<>>
    /\ header' = Head(file)
    /\ LET msgs == _validate_columns(Head(file))
       IN  /\ issues' = issues \o [i \in 1..Len(msgs) |->
                                      Issue(0, "header", msgs[i][1], msgs[i][2])]
           /\ unread' = IF msgs = <<>> THEN Tail(file) ELSE <<>>
    /\ seen_dates' = {}
    /\ valid_rows' = 0
    /\ pc' = "rows"
    /\ UNCHANGED <<file, write_back, idx, rows_out, result, file0, writes,
                   runs>>

\* Lines 94-105: the header is read and checked.
ReadHeader ==
    /\ pc = "start"
    /\ file # <<>>
    /\ header' = Head(file)
    /\ LET msgs == _validate_columns(Head(file))
       IN  issues' = issues \o [i \in 1..Len(msgs) |->
                                   Issue(0, "header", msgs[i][1], msgs[i][2])]
    /\ seen_dates' = {}
    /\ valid_rows' = 0
    /\ unread' = Tail(file)
    /\ pc' = "rows"
    /\ UNCHANGED <<file, write_back, idx, rows_out, result, file0, writes,
                   runs>>

\* Lines 107-168: one pass of the loop.
ProcessRow ==
    /\ pc = "rows"
    /\ SkipBlank(unread) # <<>>
    /\ LET rest == SkipBlank(unread)
           row == DictRow(header, Head(rest))
           row_clean == CleanRow(row)
           date == Get(row_clean, "date", Str(<<>>))
           numeric_values == NumericValues(row_clean)
       IN  /\ issues' = issues \o DateIssues(idx, date, seen_dates)
                               \o RangeIssues(idx, row_clean, 1)
                               \o StabilityIssues(idx, numeric_values)
           /\ seen_dates' = SeenAfter(date, seen_dates)
           /\ rows_out' = Append(rows_out,
                                 FillStability(row_clean, numeric_values))
           /\ unread' = Tail(rest)
    /\ valid_rows' = valid_rows + 1
    /\ idx' = idx + 1
    /\ UNCHANGED <<file, write_back, pc, header, result, file0, writes, runs>>

\* Line 107: reading the next record fails (csv.Error, UnicodeDecodeError,
\* OSError); the exception leaves validate_csv.
ReadError ==
    /\ pc = "rows"
    /\ SkipBlank(unread) # <<>>
    /\ pc' = "raised"
    /\ UNCHANGED <<file, write_back, header, unread, idx, issues, rows_out,
                   seen_dates, valid_rows, result, file0, writes, runs>>

\* Finish that writes back only a file without issues: what C7 tells from
\* Finish.
FinishWritesOnlyClean ==
    /\ pc = "rows"
    /\ SkipBlank(unread) = <<>>
    /\ unread' = <<>>
    /\ file' = IF write_back /\ issues = <<>> THEN WrittenFile(rows_out)
               ELSE file
    /\ writes' = IF write_back /\ issues = <<>> THEN writes + 1 ELSE writes
    /\ result' = [issues |-> issues, rows |-> valid_rows]
    /\ pc' = "done"
    /\ UNCHANGED <<write_back, header, idx, issues, rows_out, seen_dates,
                   valid_rows, file0, runs>>

\* Lines 170-181: the reader is exhausted; the write-back, and the return.
Finish ==
    /\ pc = "rows"
    /\ SkipBlank(unread) = <<>>
    /\ unread' = <<>>
    /\ file' = IF write_back THEN WrittenFile(rows_out) ELSE file
    /\ writes' = IF write_back THEN writes + 1 ELSE writes
    /\ result' = [issues |-> issues, rows |-> valid_rows]
    /\ pc' = "done"
    /\ UNCHANGED <<write_back, header, idx, issues, rows_out, seen_dates,
                   valid_rows, file0, runs>>

\* Lines 184-197: main is run again with --write on the file a run with
\* --write has left.
RunAgain ==
    /\ pc = "done"
    /\ writes > 0
    /\ runs < MaxRuns
    /\ runs' = runs + 1
    /\ file0' = file
    /\ pc' = "start"
    /\ header' = <<>>
    /\ unread' = <<>>
    /\ idx' = 2
    /\ issues' = <<>>
    /\ rows_out' = <<>>
    /\ seen_dates' = {}
    /\ valid_rows' = 0
    /\ result' = NoResult
    /\ writes' = 0
    /\ UNCHANGED <<file, write_back>>

Next ==
    \/ NoHeaderRow
    \/ ReadHeader
    \/ ProcessRow
    \/ ReadError
    \/ Finish
    \/ RunAgain

Spec == Init /\ [][Next]_vars

(***************************************************************************)
(* What the claims speak of: the rows processed so far in this run, each  *)
(* with the record it was read from and the issues raised for it.         *)
(***************************************************************************)
Processed == 1..Len(rows_out)

\* Row i as DictReader yields it, and one of its fields ("" when the row
\* has no such key)
InRow(i) == DictRow(Head(file0), DataRows(file0)[i])

InCell(i, col) == Get(InRow(i), col, Str(<<>>))

Blank(value) == value.t = "None" \/ (value.t = "str" /\ strip(value.v) = <<>>)

\* The decimal written in a field, once stripped
Number(i, col) ==
    IF InCell(i, col).t = "str" THEN ParseNumber(InCell(i, col).v)
    ELSE ParseNumber(<<>>)

HasNumber(i, col) == Number(i, col).kind # "err"

Computed(i) ==
    compute_stability(FloatOf(Number(i, "clarity")),
                      FloatOf(Number(i, "calm")),
                      FloatOf(Number(i, "routine")))

ScoresNumeric(i) ==
    HasNumber(i, "clarity") /\ HasNumber(i, "calm") /\ HasNumber(i, "routine")

\* The issues of row i (line i + 1) in a column, of a kind
IssuesOf(i, col, kind) ==
    SelectSeq(issues, LAMBDA x : /\ x.row_number = i + 1
                                 /\ x.column = col
                                 /\ x.message.kind = kind)

ColumnIssues(i, col) ==
    SelectSeq(issues, LAMBDA x : x.row_number = i + 1 /\ x.column = col)

SameValue(a, b) == a.t = b.t /\ (a.t \in {"str", "list"} => a.v = b.v)

Stripped(value) == IF value.t = "str" THEN Str(strip(value.v)) ELSE value

CleanCell(i, col) == Get(rows_out[i], col, Str(<<>>))

Pow10(k) == 10 ^ k

Signed(sign, n) == IF sign = 1 THEN 0 - n ELSE n

Dist(a, b) == IF a < b THEN b - a ELSE a - b

\* |existing - computed| > 0.1 in exact decimal arithmetic, for the decimal
\* p written in the stability field and the one-decimal value of computed
ExceedsTolerance(p, computed) ==
    Dist(Signed(p.sign, p.digits * 10),
         Signed(computed.s, Tenths(computed.m) * Pow10(p.k))) > Pow10(p.k)

AllDecimal(i) ==
    \A col \in {"clarity", "calm", "routine", "stability"} :
        Number(i, col).kind = "dec"

(***************************************************************************)
(* C1.  For every row in which clarity, calm, routine and stability are   *)
(* all numbers, there is exactly one "Does not match" issue, quoting      *)
(* Existing and Computed to one decimal, when |existing - computed| > 0.1 *)
(* and none when |existing - computed| <= 0.1: a difference of exactly    *)
(* 0.1 is accepted.  The code compares binary floats, and rejects the     *)
(* stability 0.4 of a row whose three scores are 0.3.                     *)
(***************************************************************************)
C1_ToleranceIsInclusive ==
    \A i \in Processed :
        AllDecimal(i) =>
            LET found == IssuesOf(i, "stability", "Does not match")
            IN  IF ExceedsTolerance(Number(i, "stability"), Computed(i))
                THEN /\ Len(found) = 1
                     /\ found[1].message.args
                          = <<FFormat1(FloatOf(Number(i, "stability"))),
                              FFormat1(Computed(i))>>
                ELSE found = <<>>

(***************************************************************************)
(* C2.  For every row whose stability field is blank and whose clarity,   *)
(* calm and routine are all numbers (in range or not), the cleaned row's  *)
(* stability is round((clarity+calm+routine)/3, 1) written with one       *)
(* decimal, and the row has no issue in the column stability.             *)
(***************************************************************************)
C2_BlankStabilityIsFilled ==
    \A i \in Processed :
        Blank(InCell(i, "stability")) /\ ScoresNumeric(i) =>
            /\ SameValue(CleanCell(i, "stability"), Str(FFormat1(Computed(i))))
            /\ "stability" \in DOMAIN rows_out[i]
            /\ ColumnIssues(i, "stability") = <<>>

\* A row with a blank stability and the clarity 11 has been given the
\* stability 9.0 = round((11 + 7 + 9) / 3, 1), beside its range issue.
C2_Witness ==
    \E i \in Processed :
        /\ Blank(InCell(i, "stability"))
        /\ InCell(i, "clarity") = Str(<<"1", "1">>)
        /\ IssuesOf(i, "clarity", "Out of range") # <<>>
        /\ CleanCell(i, "stability") = Str(<<"9", ".", "0">>)

(***************************************************************************)
(* C3.  The cleaned stability differs from the stripped stability of the  *)
(* input only in a row whose stability is blank and whose clarity, calm   *)
(* and routine are all numbers: a non-blank stability, parsable or not,   *)
(* is never replaced; and a row in which one of the three is no number    *)
(* keeps its stability and has no "Does not match" issue.  The code       *)
(* replaces the stability "abc".                                          *)
(***************************************************************************)
C3_OnlyBlankStabilityIsReplaced ==
    \A i \in Processed :
        /\ ~SameValue(CleanCell(i, "stability"),
                      Stripped(InCell(i, "stability")))
              => Blank(InCell(i, "stability")) /\ ScoresNumeric(i)
        /\ ~ScoresNumeric(i)
              => IssuesOf(i, "stability", "Does not match") = <<>>

(***************************************************************************)
(* C4.  A row has a "Duplicate date" issue if and only if its stripped    *)
(* date is not blank and equals the stripped date of an earlier row; it   *)
(* then has exactly one, and the first row of a date has none.  A row     *)
(* with a blank date has exactly one "Missing date" issue, no duplicate   *)
(* issue, and adds nothing to the set of seen dates.                      *)
(***************************************************************************)
DateOf(i) == Stripped(InCell(i, "date"))

RepeatsEarlierDate(i) ==
    /\ ~Blank(DateOf(i))
    /\ \E j \in 1..(i - 1) : ~Blank(DateOf(j)) /\ DateOf(j).v = DateOf(i).v

C4_DuplicateAndMissingDates ==
    /\ \A i \in Processed :
          /\ Len(IssuesOf(i, "date", "Duplicate date"))
                = IF RepeatsEarlierDate(i) THEN 1 ELSE 0
          /\ Len(IssuesOf(i, "date", "Missing date"))
                = IF Blank(DateOf(i)) THEN 1 ELSE 0
          /\ Len(ColumnIssues(i, "date")) <= 1
    /\ pc # "start"
          => seen_dates = {DateOf(i).v : i \in {j \in Processed : ~Blank(DateOf(j))}}

\* The second row repeats, padded with spaces, the date of the first, and a
\* duplicate issue quotes the stripped date.
C4_Witness ==
    /\ Len(rows_out) = 2
    /\ InCell(1, "date") = Str(D1)
    /\ InCell(2, "date") = Str(D1Padded)
    /\ IssuesOf(1, "date", "Duplicate date") = <<>>
    /\ Len(IssuesOf(2, "date", "Duplicate date")) = 1
    /\ IssuesOf(2, "date", "Duplicate date")[1].message.args = <<D1>>
    /\ seen_dates = {D1}

(***************************************************************************)
(* C5.  The header check looks at which columns the header holds, not at  *)
(* their order: it raises no issue exactly when every required column is  *)
(* in the header and the header holds no other column; otherwise one      *)
(* row-0 "header" issue lists all the missing columns (if and only if one *)
(* is missing) and one lists all the extra columns (if and only if there  *)
(* is one): at most two issues.                                           *)
(***************************************************************************)
HeaderIssues == SelectSeq(issues, LAMBDA x : x.row_number = 0)

MissingColumns == Range(REQUIRED_COLUMNS) \ Range(Head(file0))

ExtraColumns == Range(Head(file0)) \ Range(REQUIRED_COLUMNS)

HeaderIssuesOf(kind) == SelectSeq(HeaderIssues, LAMBDA x : x.message.kind = kind)

C5_HeaderCheckBySetMembership ==
    pc \in {"rows", "raised"} \/ (pc = "done" /\ file0 # <<>>) =>
        /\ \A n \in 1..Len(HeaderIssues) : HeaderIssues[n].column = "header"
        /\ Len(HeaderIssues) <= 2
        /\ Len(HeaderIssues)
              = (IF MissingColumns # {} THEN 1 ELSE 0)
                + (IF ExtraColumns # {} THEN 1 ELSE 0)
        /\ HeaderIssues = <<>>
              <=> Range(Head(file0)) = Range(REQUIRED_COLUMNS)
        /\ MissingColumns # {} =>
              /\ Len(HeaderIssuesOf("Missing columns")) = 1
              /\ Range(HeaderIssuesOf("Missing columns")[1].message.args)
                    = MissingColumns
        /\ ExtraColumns # {} =>
              /\ Len(HeaderIssuesOf("Unexpected extra columns")) = 1
              /\ Range(HeaderIssuesOf("Unexpected extra columns")[1].message.args)
                    = ExtraColumns

\* The header holds the twelve required columns in another order, and the
\* check has raised nothing.
C5_Witness ==
    /\ pc = "rows"
    /\ Head(file0) # REQUIRED_COLUMNS
    /\ Range(Head(file0)) = Range(REQUIRED_COLUMNS)
    /\ issues = <<>>

(***************************************************************************)
(* C9.  For each ranged column of each row, whatever the other columns    *)
(* hold: a blank value raises nothing; a value that is no number raises   *)
(* exactly one "Not a number" issue, no range or integer issue, and       *)
(* counts as no value; a number raises an "Out of range" issue if and     *)
(* only if it lies outside [lo, hi] and, in an integer-only column, an    *)
(* "Expected integer" issue if and only if it has a nonzero fractional    *)
(* part; a number out of range still enters the stability computation.    *)
(* The code raises no range issue for nan, which lies in no interval, and *)
(* an integer issue for inf, which has no fractional part.                *)
(***************************************************************************)
Outside(p, lo, hi) ==
    \/ p.kind \in {"nan", "inf"}
    \/ Signed(p.sign, p.digits) < lo * Pow10(p.k)
    \/ Signed(p.sign, p.digits) > hi * Pow10(p.k)

HasFraction(p) == p.kind = "dec" /\ p.digits % Pow10(p.k) # 0

C9_FieldChecks ==
    \A i \in Processed :
        /\ \A n \in 1..Len(RangedColumns) :
              LET col == RangedColumns[n]
                  p == Number(i, col)
                  nan == Len(IssuesOf(i, col, "Not a number"))
                  range == Len(IssuesOf(i, col, "Out of range"))
                  int == Len(IssuesOf(i, col, "Expected integer"))
              IN  IF Blank(InCell(i, col))
                  THEN nan = 0 /\ range = 0 /\ int = 0
                  ELSE IF p.kind = "err"
                  THEN nan = 1 /\ range = 0 /\ int = 0
                  ELSE /\ nan = 0
                       /\ range = IF Outside(p, RANGES[col][1], RANGES[col][2])
                                  THEN 1 ELSE 0
                       /\ int = IF col \in INT_FIELDS /\ HasFraction(p)
                                THEN 1 ELSE 0
        /\ ~ScoresNumeric(i) =>
              /\ SameValue(CleanCell(i, "stability"),
                           Stripped(InCell(i, "stability")))
              /\ IssuesOf(i, "stability", "Does not match") = <<>>
        /\ ScoresNumeric(i) /\ Blank(InCell(i, "stability")) =>
              SameValue(CleanCell(i, "stability"), Str(FFormat1(Computed(i))))

(***************************************************************************)
(* C6.  After a write-back the file's header is the twelve required       *)
(* columns in their fixed order, whatever the header was: a column        *)
(* outside the list is dropped, a required column a row lacks is written  *)
(* as the empty string, and each record carries the cleaned (stripped,    *)
(* stability-filled) values of the row it comes from.                     *)
(***************************************************************************)
RowsOf(f) == IF f = <<>> THEN <<>> ELSE DataRows(f)

FieldText(value) == IF value.t = "str" THEN value.v ELSE <<>>

C6_WriteBackOutput ==
    pc = "done" /\ writes = 1 =>
        /\ Head(file) = REQUIRED_COLUMNS
        /\ Len(file) = 1 + Len(RowsOf(file0))
        /\ \A i \in 1..Len(RowsOf(file0)) :
              /\ Len(file[i + 1]) = Len(REQUIRED_COLUMNS)
              /\ \A j \in 1..Len(REQUIRED_COLUMNS) :
                    LET c == REQUIRED_COLUMNS[j]
                        written == file[i + 1][j]
                    IN  /\ written = FieldText(CleanCell(i, c))
                        /\ c # "stability" =>
                              written = FieldText(Stripped(InCell(i, c)))
                        /\ ~InHeader(c, Head(file0)) /\ c # "stability" =>
                              written = <<>>
                        /\ c = "stability" /\ Blank(InCell(i, c))
                           /\ ScoresNumeric(i) =>
                              written = FFormat1(Computed(i))

\* The header held the undeclared column "mood" and lacked "notes"; the
\* file now holds the twelve columns, the row's date stripped and its
\* stability filled with 8.0.
C6_Witness ==
    /\ pc = "done"
    /\ writes = 1
    /\ InHeader("mood", Head(file0))
    /\ ~InHeader("notes", Head(file0))
    /\ Len(file) = 2
    /\ InCell(1, "date") = Str(D1Padded)
    /\ file[2][1] = D1
    /\ file[2][5] = <<"8", ".", "0">>
    /\ file[2][12] = <<>>

(***************************************************************************)
(* C7.  As claimed: whenever write-back is requested the file is          *)
(* overwritten, whatever the validation found (header issues, row issues, *)
(* a missing header row); exactly once, and only after every data row     *)
(* has been read and cleaned; and never when write-back is not requested. *)
(* The code returns before the write-back when the file has no header     *)
(* row.                                                                   *)
(***************************************************************************)
WriteDiscipline ==
    /\ writes <= 1
    /\ writes = 1 =>
          /\ pc = "done"
          /\ unread = <<>>
          /\ Len(rows_out) = Len(RowsOf(file0))
    /\ writes = 0 => file = file0
    /\ ~write_back => writes = 0

C7_OverwriteWheneverRequested ==
    /\ pc = "done" => writes = IF write_back THEN 1 ELSE 0
    /\ WriteDiscipline

(***************************************************************************)
(* C7, amended.  Whenever write-back is requested and the file has a      *)
(* header row, the file is overwritten once the rows have been read,      *)
(* whatever header or row issues were found; exactly once, and only after *)
(* every data row has been read and cleaned.  A file with no header row   *)
(* is not written, requested or not; nor is a file whose reading fails;   *)
(* nor is any file when write-back is not requested.                      *)
(***************************************************************************)
C7_OverwriteWhenRequestedAndHeaded ==
    /\ pc = "done" => writes = IF write_back /\ file0 # <<>> THEN 1 ELSE 0
    /\ pc = "raised" => writes = 0
    /\ WriteDiscipline

\* A run that asked for the write-back has found header issues and row
\* issues, and has rewritten the file.
C7_Witness ==
    /\ pc = "done"
    /\ write_back
    /\ writes = 1
    /\ HeaderIssues # <<>>
    /\ Len(issues) > Len(HeaderIssues)
    /\ file # file0

(***************************************************************************)
(* C8.  Validation never stops early: for a file with a header the row    *)
(* count returned is the number of data rows of the file, and one cleaned *)
(* row is kept for each data row, in the order of the file, however many  *)
(* header issues or field issues have been raised.                        *)
(***************************************************************************)
C8_EveryRowIsProcessed ==
    /\ valid_rows = Len(rows_out)
    /\ pc = "rows" =>
          Len(rows_out) + Len(SelectSeq(unread, LAMBDA r : r # <<>>))
             = Len(RowsOf(file0))
    /\ pc = "done" /\ file0 # <<>> =>
          /\ result.rows = Len(RowsOf(file0))
          /\ Len(rows_out) = Len(RowsOf(file0))
          /\ result.issues = issues
    /\ \A i \in Processed :
          \A k \in DOMAIN InRow(i) :
              /\ k \in DOMAIN rows_out[i]
              /\ k # "stability" =>
                    SameValue(rows_out[i][k], Stripped(InRow(i)[k]))

\* Two rows have been counted and kept in order, though the header raised
\* two issues and the first row one.
C8_Witness ==
    /\ pc = "done"
    /\ Len(HeaderIssues) = 2
    /\ IssuesOf(1, "date", "Missing date") # <<>>
    /\ result.rows = 2
    /\ CleanCell(1, "date") = Str(<<>>)
    /\ CleanCell(2, "date") = Str(D2)

(***************************************************************************)
(* C10.  Write-back is idempotent: a run with write-back on the file a    *)
(* run with write-back has left writes the same file again (the same      *)
(* header of twelve columns, the same rows, the same stripped values and  *)
(* stability values), and reports no header issue.                        *)
(***************************************************************************)
C10_WriteBackIsIdempotent ==
    /\ runs >= 2 => write_back /\ file0 # <<>>
    /\ runs >= 2 /\ pc \in {"rows", "raised", "done"} => HeaderIssues = <<>>
    /\ runs >= 2 /\ pc = "done" =>
          /\ writes = 1
          /\ file = file0
          /\ Head(file) = REQUIRED_COLUMNS
          /\ \A n \in 1..Len(result.issues) : result.issues[n].row_number # 0

\* The second run has rewritten a file of two rows, the stability the
\* first run filled in unchanged, and still reports the duplicate date.
C10_Witness ==
    /\ runs = 2
    /\ pc = "done"
    /\ writes = 1
    /\ Len(file) = 3
    /\ file[2][5] = <<"8", ".", "0">>
    /\ file[3][1] = file[2][1]
    /\ IssuesOf(2, "date", "Duplicate date") # <<>>

=============================================================================
